---- MODULE Spec2Model ----
(***************************************************************************)
(* A model of savant-real: the AGIRRFCore scoring pipeline                  *)
(* (src/savant_core/agi_rrf_core.py), the /judge endpoint (src/api/app.py)  *)
(* and the benchmark/gate harness (src/bench/run_bench.py).                 *)
(*                                                                          *)
(* Floats are fixed-point integers: a float v is the integer v * Scale.     *)
(* Latencies are integers in milliseconds.  None is <<>>, a present value   *)
(* v is <<v>>.  NaN (the mean of an empty slice) is one integer outside     *)
(* the fixed-point range.                                                   *)
(***************************************************************************)
EXTENDS Integers, Sequences, FiniteSets, TLC

VARIABLES
  \* ---- the service: one AGIRRFCore shared by concurrent /judge requests
  core,        \* the AGIRRFCore dataclass: embedder, meta_logit, expected_features
  expected,    \* app.py's module global `expected`
  pc,          \* per request: position inside judge/predict
  req,         \* per request: the JudgeRequest body (prompt, answer)
  frame,       \* per request: the locals of extract_features/predict
  calls,       \* per request: collaborator operations invoked so far, in order
  outcome,     \* per request: what core.predict returned or raised
  resp,        \* per request: the HTTP response of judge
  \* ---- vectorisation as a pure function (predict, lines 117-122)
  vpc, vfeats, vorder, vn, vout,
  \* ---- spectrum_features as a pure function
  spc, sy, sout,
  \* ---- the benchmark harness (run_bench.py main)
  bpc, args, smoke_payload, hard_payload, warm_sent, lat, errors,
  bench_payload, gate_payload, exit_code, ran

svcVars == <<core, expected, pc, req, frame, calls, outcome, resp>>
vecVars == <<vpc, vfeats, vorder, vn, vout>>
spVars == <<spc, sy, sout>>
benchVars == <<bpc, args, smoke_payload, hard_payload, warm_sent, lat, errors,
               bench_payload, gate_payload, exit_code, ran>>
vars == <<svcVars, vecVars, spVars, benchVars>>

None == <<>>
Some(v) == <<v>>
NaN == -(2^30)

\* Fixed-point unit: three decimal digits.
Scale == 10^3

Abs(v) == IF v < 0 THEN -v ELSE v
Max(a, b) == IF a >= b THEN a ELSE b
Min(a, b) == IF a <= b THEN a ELSE b

RECURSIVE SumSeq(_)
SumSeq(s) == IF s = <<>> THEN 0 ELSE Head(s) + SumSeq(Tail(s))

\* floor(sqrt(v)) by bisection on [lo, hi]
RECURSIVE SqrtBetween(_, _, _)
SqrtBetween(v, lo, hi) ==
  IF lo >= hi THEN lo
  ELSE LET mid == (lo + hi + 1) \div 2
       IN IF mid * mid <= v THEN SqrtBetween(v, mid, hi)
          ELSE SqrtBetween(v, lo, mid - 1)

Isqrt(v) == SqrtBetween(v, 0, Min(v, 46340))

\* a Python slice bound on a sequence of n entries: negative counts from the
\* end, and both ends are clamped
SliceBound(i, n) == IF i < 0 THEN Max(0, n + i) ELSE Min(i, n)

\* Python slicing s[lo:hi] of a 0-based array held as a 1-based sequence
Slice(s, lo, hi) == SubSeq(s, SliceBound(lo, Len(s)) + 1, SliceBound(hi, Len(s)))

\* ------------------------------------------------------------------------
\* Numeric primitives (agi_rrf_core.py)

\* largest integer argument math.exp accepts before raising OverflowError
ExpOverflowAt == 709

\* e, fixed-point
EulerFix == 2718

\* e^(-f/Scale) * Scale for 0 <= f < Scale: Taylor series, term i from term i-1
RECURSIVE ExpNegFrac(_, _, _)
ExpNegFrac(f, i, term) ==
  IF i > 8 \/ term = 0 THEN 0
  ELSE term + ExpNegFrac(f, i + 1, (term * (-f)) \div (i * Scale))

\* divide v by e, k times
RECURSIVE DivE(_, _)
DivE(v, k) == IF k = 0 \/ v = 0 THEN v ELSE DivE((v * Scale) \div EulerFix, k - 1)

\* e^(-z/Scale) * Scale for z >= 0
ExpNeg(z) == DivE(ExpNegFrac(z % Scale, 1, Scale), z \div Scale)

\* sigmoid: 1/(1+exp(-x)); exp(-x) raises OverflowError when -x is too large
\* and the handler saturates.  For x < 0 the quotient is taken as
\* exp(x)/(exp(x)+1), the same value, so that no intermediate exceeds the
\* fixed-point range.
sigmoid(x) ==
  IF -x > ExpOverflowAt * Scale THEN (IF x < 0 THEN 0 ELSE Scale)
  ELSE IF x >= 0 THEN (Scale * Scale) \div (Scale + ExpNeg(x))
  ELSE (ExpNeg(-x) * Scale) \div (ExpNeg(-x) + Scale)

Dot(a, b) == SumSeq([i \in 1..Len(a) |-> a[i] * b[i]])

\* numpy.linalg.norm of an integer-valued vector, fixed-point
norm(a) == Isqrt(Dot(a, a) * Scale * Scale)

safe_cosine(a, b) ==
  LET na == norm(a)
      nb == norm(b)
  IN IF na = 0 \/ nb = 0 THEN 0
     ELSE (((Dot(a, b) * Scale * Scale) \div na) * Scale) \div nb

\* math.log of a small positive integer, fixed-point
LnFix(k) ==
  CASE k = 1 -> 0 [] k = 2 -> 693 [] k = 3 -> 1099 [] k = 4 -> 1386
    [] k = 5 -> 1609 [] k = 6 -> 1792 [] k = 7 -> 1946 [] OTHER -> 2079

\* collections.Counter(text): the number of occurrences of each character
Counter(text) ==
  [c \in {text[i] : i \in 1..Len(text)} |->
     Cardinality({i \in 1..Len(text) : text[i] = c})]

RECURSIVE SumOver(_, _)
SumOver(f, S) ==
  IF S = {} THEN 0
  ELSE LET c == CHOOSE e \in S : TRUE
       IN f[c] + SumOver(f, S \ {c})

\* token_entropy: -sum p*log(p + 1e-12), p = v/total; log p = log v - log total
\* (the 1e-12 is below the fixed-point resolution)
token_entropy(text) ==
  IF text = <<>> THEN 0
  ELSE LET c == Counter(text)
           total == SumOver(c, DOMAIN c)
           part == [ch \in DOMAIN c |->
                      (c[ch] * (LnFix(total) - LnFix(c[ch]))) \div total]
       IN SumOver(part, DOMAIN c)

\* numpy mean of a slice; the mean of an empty slice is NaN
Mean(s) == IF Len(s) = 0 THEN NaN ELSE SumSeq(s) \div Len(s)

\* numpy.argmax: the 0-based index of the first maximum
ArgMax(y) ==
  (CHOOSE i \in 1..Len(y) :
     /\ \A j \in 1..Len(y) : y[j] <= y[i]
     /\ \A j \in 1..(i - 1) : y[j] < y[i]) - 1

\* a variant of LowEnd without the clamp to one bin
LowEnd_Unclamped(n) == n \div 6

\* the index where the low band ends and the mid band starts
LowEnd(n) == Max(1, n \div 6)

\* the index where the mid band ends and the high band starts
MidEnd(n) == Max(2, n \div 3)

\* spectrum_features, from the magnitude spectrum y = |rfft(x)|
spectrum_of(y) ==
  IF Len(y) = 0
  THEN [freq_low |-> 0, freq_mid |-> 0, freq_high |-> 0, dominant_frequency |-> 0]
  ELSE LET n == Len(y)
           low == Mean(Slice(y, 0, LowEnd(n)))
           mid == IF n >= 3 THEN Mean(Slice(y, LowEnd(n), MidEnd(n))) ELSE 0
           high == IF n >= 3 THEN Mean(Slice(y, MidEnd(n), n)) ELSE 0
           dom == (ArgMax(y) * Scale) \div Max(1, n - 1)
       IN [freq_low |-> low, freq_mid |-> mid, freq_high |-> high,
           dominant_frequency |-> dom]

\* ------------------------------------------------------------------------
\* Feature vectorisation (predict, lines 117-122)

\* dict.get(name, 0.0)
Get(feats, name) == IF name \in DOMAIN feats THEN feats[name] ELSE 0

\* a variant of Vectorize that pads but never truncates
Vectorize_NoTruncate(feats, names, n) ==
  LET x == [i \in 1..Len(names) |-> Get(feats, names[i])]
  IN IF Len(x) < n THEN x \o [i \in 1..(n - Len(x)) |-> 0] ELSE x

\* x = [feats.get(n, 0.0) for n in names], padded or truncated to n entries
Vectorize(feats, names, n) ==
  LET x == [i \in 1..Len(names) |-> Get(feats, names[i])]
  IN IF Len(x) < n THEN x \o [i \in 1..(n - Len(x)) |-> 0]
     ELSE IF Len(x) > n THEN SubSeq(x, 1, n)
     ELSE x

\* ------------------------------------------------------------------------
\* Collaborators: the embedding provider and the classifier adapter

\* an exception object: its type, str(e), and __context__ (the exception that
\* was being handled when it was raised)
Exc(type, msg, context) == [type |-> type, msg |-> msg, context |-> context]

Hi == <<"h", "i">>
Ok == <<"o", "k">>

\* embedder.encode(text): a deterministic table, or an exception
Encode(embedder, text) ==
  IF embedder.kind = "raises_on_ok" /\ text = Ok
  THEN [raised |-> TRUE, exc |-> Exc("RuntimeError", "encode failed", None)]
  ELSE [raised |-> FALSE,
        value |-> IF text = Hi THEN <<3, 4, 0, 0>> ELSE <<4, 0, -3, 0>>]

\* the classifier adapter's raw score: a linear model, every weight 0.1
DecisionScore(x) == SumSeq(x) \div 10

\* the classifier adapter's probability row [class 0, class 1], calibrated on
\* half the raw score
ProbaRow(x) ==
  LET p1 == sigmoid(DecisionScore(x) \div 2)
  IN <<Scale - p1, p1>>

\* meta_logit.<op>(x): the value, or the exception of a missing or failing op
CallOp(meta, op, x) ==
  CASE meta[op] = "absent" ->
         [raised |-> TRUE, how |-> "unavailable",
          exc |-> Exc("AttributeError", "no attribute " \o op, None)]
    [] meta[op] = "raises" ->
         [raised |-> TRUE, how |-> "raised",
          exc |-> Exc("ValueError", op \o " failed", None)]
    [] OTHER ->
         [raised |-> FALSE, how |-> "ok",
          value |-> IF op = "predict_proba" THEN ProbaRow(x) ELSE DecisionScore(x)]

\* |scipy.fft.rfft(x)| of a real vector of 1, 2 or 4 entries, fixed-point
RfftMag(x) ==
  CASE Len(x) = 1 -> <<Abs(x[1]) * Scale>>
    [] Len(x) = 2 -> <<Abs(x[1] + x[2]) * Scale, Abs(x[1] - x[2]) * Scale>>
    [] Len(x) = 4 ->
         <<Abs(x[1] + x[2] + x[3] + x[4]) * Scale,
           Isqrt(((x[1] - x[3]) * (x[1] - x[3]) + (x[2] - x[4]) * (x[2] - x[4]))
                 * Scale * Scale),
           Abs(x[1] - x[2] + x[3] - x[4]) * Scale>>

\* numpy.std (population) of an integer-valued vector, fixed-point
Std(v) ==
  LET L == Len(v)
      s1 == SumSeq(v)
  IN Isqrt((L * Dot(v, v) - s1 * s1) * Scale * Scale) \div L

AbsVec(v) == [i \in 1..Len(v) |-> Abs(v[i])]

\* ------------------------------------------------------------------------
\* AGIRRFCore

PhiFix == 632
TwoPiFix == 6283
DefaultExpected == 15

CanonicalNames ==
  <<"semantic_margin", "cosine_prompt_answer", "token_entropy", "dirac_energy",
    "dirac_shell_std", "freq_low", "freq_mid", "freq_high", "coherence_ratio",
    "phi", "omega", "S_RRF", "C_RRF", "dominant_frequency", "Phi1_geometric">>

\* a variant of _feature_names that ignores the classifier's declared names
feature_names_CanonicalOnly(meta) == CanonicalNames

\* _feature_names: the classifier's feature_names_in_ when it has the
\* attribute and list() of it succeeds, else the canonical 15 names
feature_names(meta) ==
  IF meta.feature_names_in_[1] = "declared" THEN meta.feature_names_in_[2]
  ELSE CanonicalNames

\* extract_features, after the two encode calls returned ep and ea
extract_features(ep, ea, prompt, answer) ==
  LET cos == safe_cosine(ep, ea)
      semantic_margin == cos - Scale \div 2
      ent == token_entropy(prompt \o answer)
      dirac_energy == norm([i \in 1..Len(ep) |-> ep[i] - ea[i]])
      dirac_shell_std == Std(AbsVec(ep)) + Std(AbsVec(ea))
      sf == spectrum_of(RfftMag(ea))
      coherence_ratio == (Abs(cos) * Scale) \div (Scale + ent)
      \* max(1e-6, dominant_frequency): 1e-6 is 0 at this resolution
      omega == (TwoPiFix * Max(0, sf.dominant_frequency)) \div Scale
  IN [semantic_margin |-> semantic_margin,
      cosine_prompt_answer |-> cos,
      token_entropy |-> ent,
      dirac_energy |-> dirac_energy,
      dirac_shell_std |-> dirac_shell_std,
      freq_low |-> sf.freq_low,
      freq_mid |-> sf.freq_mid,
      freq_high |-> sf.freq_high,
      coherence_ratio |-> coherence_ratio,
      phi |-> PhiFix,
      omega |-> omega,
      S_RRF |-> sigmoid(2 * semantic_margin),
      C_RRF |-> Scale - Abs(Scale \div 2 - cos),
      dominant_frequency |-> sf.dominant_frequency,
      Phi1_geometric |-> sigmoid((3 * cos) \div 2)]

\* the dictionary predict returns (lines 130-138)
Result(p_good, feats) ==
  [p_good |-> p_good,
   SRRF |-> p_good,
   CRRF |-> Get(feats, "C_RRF"),
   E_phi |-> Scale \div 4 + Get(feats, "cosine_prompt_answer") \div 2,
   cosine |-> Get(feats, "cosine_prompt_answer"),
   phi |-> IF "phi" \in DOMAIN feats THEN feats["phi"] ELSE PhiFix,
   features |-> feats]

Returned(v) == [kind |-> "returned", value |-> v]
Raised(e) == [kind |-> "raised", exc |-> e]

\* app.py lines 29-36: expected = coef_.shape[1] when readable, else 15
ExpectedAtStartup(meta) ==
  IF meta.coef_[1] = "shape" THEN meta.coef_[2] ELSE DefaultExpected

\* ------------------------------------------------------------------------
\* Bounded inputs

SeqsUpTo(S, k) == UNION {[1..m -> S] : m \in 0..k}

\* spectrum_features: spectra of up to MaxBins bins over two magnitudes
MaxBins == 12
Mags == {0, 3 * Scale}

\* the service: NumRequests concurrent /judge requests
NumRequests == 2
Requests == 1..NumRequests
\* the request bodies: equal texts, different texts, either order
Bodies == {<<Hi, Hi>>, <<Hi, Ok>>, <<Ok, Hi>>}
DeclaredNames == <<"phi", "legacy_score", "C_RRF">>
OpKinds == {"absent", "raises", "ok"}
\* the classifier's metadata: feature_names_in_ and coef_ each absent,
\* unreadable or present; 3 declared names against widths 2, 15 and 16
Schemas ==
  {<<<<"absent">>, <<"absent">>>>,
   <<<<"declared", DeclaredNames>>, <<"shape", 2>>>>,
   <<<<"unreadable">>, <<"shape", 16>>>>,
   <<<<"declared", DeclaredNames>>, <<"unreadable">>>>}
MetaLogits ==
  {[feature_names_in_ |-> s[1], coef_ |-> s[2], predict_proba |-> p,
    decision_function |-> d] : s \in Schemas, p \in OpKinds, d \in OpKinds}
Embedders == {[kind |-> "healthy"], [kind |-> "raises_on_ok"]}

\* the harness: up to MaxN measured requests, MaxWarmup warm-up requests, a
\* discard of -1 up to MaxDiscard; a request ends with a status after a latency
\* (ms), or with an exception
MaxN == 3
MaxWarmup == 1
MaxDiscard == 2
Lats == {100, 1000}
PostOutcomes == [exc : {FALSE}, status : {200, 500}, latency : Lats] \cup {[exc |-> TRUE]}

\* vectorisation: orders of up to MaxOrderLen names, widths up to MaxWidth
MaxOrderLen == 3
MaxWidth == 4
VecNames == {"phi", "C_RRF", "omega"}
VecVals == {-500, 250}
VecFeatureSets == UNION {[D -> VecVals] : D \in SUBSET VecNames}

\* ------------------------------------------------------------------------
\* Idle values of each group of variables

NoFrame == [ep |-> None, ea |-> None, feats |-> None, names |-> None,
            x |-> None, proba_exc |-> None]

IdleSvc ==
  /\ core = [embedder |-> [kind |-> "healthy"],
             meta_logit |-> [feature_names_in_ |-> <<"absent">>, coef_ |-> <<"absent">>,
                             predict_proba |-> "ok", decision_function |-> "ok"],
             expected_features |-> DefaultExpected]
  /\ expected = DefaultExpected
  /\ pc = [r \in Requests |-> "idle"]
  /\ req = [r \in Requests |-> None]
  /\ frame = [r \in Requests |-> NoFrame]
  /\ calls = [r \in Requests |-> <<>>]
  /\ outcome = [r \in Requests |-> None]
  /\ resp = [r \in Requests |-> None]

IdleBench ==
  /\ bpc = "idle"
  /\ args = None
  /\ smoke_payload = None
  /\ hard_payload = None
  /\ warm_sent = 0
  /\ lat = <<>>
  /\ errors = 0
  /\ bench_payload = None
  /\ gate_payload = None
  /\ exit_code = None
  /\ ran = <<>>

IdleVec == /\ vpc = "idle" /\ vfeats = <<>> /\ vorder = <<>> /\ vn = 0 /\ vout = None
IdleSp == /\ spc = "idle" /\ sy = <<>> /\ sout = None

\* ------------------------------------------------------------------------
\* spectrum_features as a pure function: any spectrum, then one call

InitSpectrumInputs ==
  /\ spc = "call"
  /\ sy \in SeqsUpTo(Mags, MaxBins)
  /\ sout = None

SpectrumCall ==
  /\ spc = "call"
  /\ sout' = Some(spectrum_of(sy))
  /\ spc' = "returned"
  /\ UNCHANGED sy
  /\ UNCHANGED <<svcVars, vecVars, benchVars>>

\* ------------------------------------------------------------------------
\* vectorisation as a pure function: any feature set, order and width

InitVectorizeInputs ==
  /\ vpc = "call"
  /\ vfeats \in VecFeatureSets
  /\ vorder \in SeqsUpTo(VecNames, MaxOrderLen)
  /\ vn \in 0..MaxWidth
  /\ vout = None

VectorizeCall ==
  /\ vpc = "call"
  /\ vout' = Some(Vectorize(vfeats, vorder, vn))
  /\ vpc' = "returned"
  /\ UNCHANGED <<vfeats, vorder, vn>>
  /\ UNCHANGED <<svcVars, spVars, benchVars>>

\* ------------------------------------------------------------------------
\* The service: app.py's startup, then concurrent /judge requests

\* app.py lines 21-36: the two models are loaded, `expected` is derived and
\* the core is constructed
InitService ==
  /\ \E e \in Embedders, m \in MetaLogits :
       /\ expected = ExpectedAtStartup(m)
       /\ core = [embedder |-> e, meta_logit |-> m,
                  expected_features |-> ExpectedAtStartup(m)]
  /\ pc = [r \in Requests |-> "idle"]
  /\ req = [r \in Requests |-> None]
  /\ frame = [r \in Requests |-> NoFrame]
  /\ calls = [r \in Requests |-> <<>>]
  /\ outcome = [r \in Requests |-> None]
  /\ resp = [r \in Requests |-> None]

Called(r, op, how) == calls' = [calls EXCEPT ![r] = Append(@, [op |-> op, how |-> how])]

\* a variant of SelfAfterPredict that adopts the width of the name order
SelfAfterPredict_AdoptsWidth(c, names) == [c EXCEPT !.expected_features = Len(names)]

\* the core object after a predict call resolved the name order: predict
\* assigns to locals only, never to self
SelfAfterPredict(c, names) == c

\* a variant of EncodeRaised that calls encode once more before failing
EncodeRaised_RetryOnce(r, exc) ==
  IF Len(calls[r]) < 2
  THEN /\ UNCHANGED <<outcome, pc>>
  ELSE /\ outcome' = [outcome EXCEPT ![r] = Some(Raised(exc))]
       /\ pc' = [pc EXCEPT ![r] = "respond"]

\* an exception of embedder.encode leaves extract_features and predict: no
\* handler stands between the call and judge
EncodeRaised(r, exc) ==
  /\ outcome' = [outcome EXCEPT ![r] = Some(Raised(exc))]
  /\ pc' = [pc EXCEPT ![r] = "respond"]

\* a variant of ProbaPGood that reads the class-0 column
ProbaPGood_Class0(row) == row[1]

\* float(predict_proba(x)[0, 1]): the class-1 probability of the only row
ProbaPGood(row) == row[2]

\* a variant of DecisionFallback that scores 0.5 when decision_function fails
DecisionFallback_Default(meta, x, feats, proba_exc) ==
  LET got == CallOp(meta, "decision_function", x)
  IN IF got.raised THEN Returned(Result(Scale \div 2, feats))
     ELSE Returned(Result(sigmoid(got.value), feats))

\* predict lines 126-128, the except block: s = decision_function(x)[0] and
\* p_good = sigmoid(s); an exception raised here leaves predict with the
\* caught one as its __context__
DecisionFallback(meta, x, feats, proba_exc) ==
  LET got == CallOp(meta, "decision_function", x)
  IN IF got.raised THEN Raised([got.exc EXCEPT !.context = Some(proba_exc)])
     ELSE Returned(Result(sigmoid(got.value), feats))

\* judge is entered with a validated JudgeRequest and calls core.predict
JudgeReceive(r) ==
  /\ pc[r] = "idle"
  /\ \E b \in Bodies : req' = [req EXCEPT ![r] = Some([prompt |-> b[1], answer |-> b[2]])]
  /\ pc' = [pc EXCEPT ![r] = "encode_prompt"]
  /\ frame' = [frame EXCEPT ![r] = NoFrame]
  /\ calls' = [calls EXCEPT ![r] = <<>>]
  /\ outcome' = [outcome EXCEPT ![r] = None]
  /\ resp' = [resp EXCEPT ![r] = None]
  /\ UNCHANGED <<core, expected>>
  /\ UNCHANGED <<vecVars, spVars, benchVars>>

\* extract_features line 76: ep = embedder.encode(prompt)
EncodePrompt(r) ==
  /\ pc[r] = "encode_prompt"
  /\ LET got == Encode(core.embedder, req[r][1].prompt)
     IN IF got.raised
        THEN /\ Called(r, "encode", "raised")
             /\ EncodeRaised(r, got.exc)
             /\ UNCHANGED frame
        ELSE /\ Called(r, "encode", "ok")
             /\ frame' = [frame EXCEPT ![r].ep = Some(got.value)]
             /\ pc' = [pc EXCEPT ![r] = "encode_answer"]
             /\ UNCHANGED outcome
  /\ UNCHANGED <<core, expected, req, resp>>
  /\ UNCHANGED <<vecVars, spVars, benchVars>>

\* extract_features lines 77-112 and predict lines 116-122: ea is encoded, the
\* features are computed, the name order is read from the classifier and the
\* vector is built
EncodeAnswer(r) ==
  /\ pc[r] = "encode_answer"
  /\ LET got == Encode(core.embedder, req[r][1].answer)
     IN IF got.raised
        THEN /\ Called(r, "encode", "raised")
             /\ EncodeRaised(r, got.exc)
             /\ UNCHANGED <<frame, core>>
        ELSE LET feats == extract_features(frame[r].ep[1], got.value,
                                           req[r][1].prompt, req[r][1].answer)
                 names == feature_names(core.meta_logit)
                 x == Vectorize(feats, names, core.expected_features)
             IN /\ calls' = [calls EXCEPT ![r] =
                               @ \o <<[op |-> "encode", how |-> "ok"],
                                      [op |-> "feature_names_in_",
                                       how |-> core.meta_logit.feature_names_in_[1]]>>]
                /\ frame' = [frame EXCEPT ![r].ea = Some(got.value),
                                          ![r].feats = Some(feats),
                                          ![r].names = Some(names),
                                          ![r].x = Some(x)]
                /\ core' = SelfAfterPredict(core, names)
                /\ pc' = [pc EXCEPT ![r] = "predict_proba"]
                /\ UNCHANGED outcome
  /\ UNCHANGED <<expected, req, resp>>
  /\ UNCHANGED <<vecVars, spVars, benchVars>>

\* predict lines 124-126: p_good = predict_proba(x)[0, 1], any Exception caught
CallPredictProba(r) ==
  /\ pc[r] = "predict_proba"
  /\ LET got == CallOp(core.meta_logit, "predict_proba", frame[r].x[1])
     IN /\ Called(r, "predict_proba", got.how)
        /\ IF got.raised
           THEN /\ frame' = [frame EXCEPT ![r].proba_exc = Some(got.exc)]
                /\ pc' = [pc EXCEPT ![r] = "decision_function"]
                /\ UNCHANGED outcome
           ELSE /\ outcome' = [outcome EXCEPT ![r] =
                                 Some(Returned(Result(ProbaPGood(got.value), frame[r].feats[1])))]
                /\ pc' = [pc EXCEPT ![r] = "respond"]
                /\ UNCHANGED frame
  /\ UNCHANGED <<core, expected, req, resp>>
  /\ UNCHANGED <<vecVars, spVars, benchVars>>

\* predict lines 126-128: the fallback, entered with the caught exception
CallDecisionFunction(r) ==
  /\ pc[r] = "decision_function"
  /\ Called(r, "decision_function",
            CallOp(core.meta_logit, "decision_function", frame[r].x[1]).how)
  /\ outcome' = [outcome EXCEPT ![r] =
                   Some(DecisionFallback(core.meta_logit, frame[r].x[1],
                                         frame[r].feats[1], frame[r].proba_exc[1]))]
  /\ pc' = [pc EXCEPT ![r] = "respond"]
  /\ UNCHANGED <<core, expected, req, frame, resp>>
  /\ UNCHANGED <<vecVars, spVars, benchVars>>

\* a variant of JudgeResponse that answers a failure with default scores
JudgeResponse_DefaultScores(out, exp) ==
  IF out.kind = "returned"
  THEN [status |-> 200,
        scores |-> [p_good |-> out.value.p_good, SRRF |-> out.value.SRRF,
                    CRRF |-> out.value.CRRF, E_phi |-> out.value.E_phi,
                    cosine |-> out.value.cosine, phi |-> out.value.phi],
        features |-> out.value.features,
        meta |-> [expected_features |-> exp]]
  ELSE [status |-> 200,
        scores |-> [p_good |-> 0, SRRF |-> 0, CRRF |-> 0, E_phi |-> 0,
                    cosine |-> 0, phi |-> PhiFix],
        features |-> <<>>,
        meta |-> [expected_features |-> exp]]

\* judge lines 49-69: the scores of a returned prediction, or HTTPException(500,
\* str(e)) for any Exception
JudgeResponse(out, exp) ==
  IF out.kind = "returned"
  THEN [status |-> 200,
        scores |-> [p_good |-> out.value.p_good, SRRF |-> out.value.SRRF,
                    CRRF |-> out.value.CRRF, E_phi |-> out.value.E_phi,
                    cosine |-> out.value.cosine, phi |-> out.value.phi],
        features |-> out.value.features,
        meta |-> [expected_features |-> exp]]
  ELSE [status |-> 500, detail |-> out.exc.msg]

JudgeRespond(r) ==
  /\ pc[r] = "respond"
  /\ resp' = [resp EXCEPT ![r] = Some(JudgeResponse(outcome[r][1], expected))]
  /\ pc' = [pc EXCEPT ![r] = "responded"]
  /\ UNCHANGED <<core, expected, req, frame, calls, outcome>>
  /\ UNCHANGED <<vecVars, spVars, benchVars>>

\* the response is sent; the worker is free for the next request
JudgeFinish(r) ==
  /\ pc[r] = "responded"
  /\ pc' = [pc EXCEPT ![r] = "idle"]
  /\ req' = [req EXCEPT ![r] = None]
  /\ frame' = [frame EXCEPT ![r] = NoFrame]
  /\ calls' = [calls EXCEPT ![r] = <<>>]
  /\ outcome' = [outcome EXCEPT ![r] = None]
  /\ resp' = [resp EXCEPT ![r] = None]
  /\ UNCHANGED <<core, expected>>
  /\ UNCHANGED <<vecVars, spVars, benchVars>>

\* ------------------------------------------------------------------------
\* The benchmark harness (run_bench.py)

\* percentiles and the mean are held in 1/PctUnit ms, rates in 1/RateUnit
PctUnit == 10^2
RateUnit == 10^6

\* smoke() requests four paths, hardening() posts the four DEFAULT_CASES
NumSmokePaths == 4
NumHardeningCases == 4

\* main's thresholds (lines 133-137): seconds as ms, rates in 1/RateUnit
P95Max == 600
P99Max == 900
ErrorRateMax == 5000
MinOkRateSmoke == RateUnit

SeqMin(xs) == CHOOSE v \in {xs[i] : i \in 1..Len(xs)} : \A j \in 1..Len(xs) : v <= xs[j]
SeqMax(xs) == CHOOSE v \in {xs[i] : i \in 1..Len(xs)} : \A j \in 1..Len(xs) : v >= xs[j]

\* percentile(xs, p), in 1/PctUnit ms: k = (len-1)*p/100, f = int(k),
\* c = min(f+1, len-1), linear interpolation between xs_sorted[f] and [c];
\* k is held exactly, as k100 = 100*k
percentile(xs, p) ==
  IF xs = <<>> THEN None
  ELSE LET xs_sorted == SortSeq(xs, LAMBDA a, b : a < b)
           k100 == (Len(xs_sorted) - 1) * p
           f == k100 \div 100
           c == Min(f + 1, Len(xs_sorted) - 1)
       IN IF f = c THEN Some(xs_sorted[f + 1] * PctUnit)
          ELSE Some(xs_sorted[f + 1] * PctUnit
                    + ((xs_sorted[c + 1] - xs_sorted[f + 1]) * (k100 % 100) * PctUnit) \div 100)

\* [x for x in lat if x is not None]
RECURSIVE Valid(_)
Valid(l) ==
  IF l = <<>> THEN <<>>
  ELSE IF Head(l) = None THEN Valid(Tail(l))
  ELSE <<Head(l)[1]>> \o Valid(Tail(l))

\* a variant of Kept that slices off the first `discard` without the guard
Kept_Unguarded(lat_valid, discard) == Slice(lat_valid, discard, Len(lat_valid))

\* benchmark lines 83-84: the first `discard` valid latencies are dropped when
\* discard > 0 and more than `discard` of them exist
Kept(lat_valid, discard) ==
  IF discard > 0 /\ Len(lat_valid) > discard
  THEN Slice(lat_valid, discard, Len(lat_valid))
  ELSE lat_valid

\* benchmark lines 82-96: the payload
BenchmarkPayload(l, errs, n, discard) ==
  LET lat_valid == Kept(Valid(l), discard)
  IN [N |-> Len(lat_valid),
      errors |-> errs,
      error_rate |-> (errs * RateUnit) \div Max(1, n),
      p50_s |-> percentile(lat_valid, 50),
      p95_s |-> percentile(lat_valid, 95),
      p99_s |-> percentile(lat_valid, 99),
      min_s |-> IF lat_valid = <<>> THEN None ELSE Some(SeqMin(lat_valid)),
      mean_s |-> IF lat_valid = <<>> THEN None
                 ELSE Some((SumSeq(lat_valid) * PctUnit) \div Len(lat_valid)),
      max_s |-> IF lat_valid = <<>> THEN None ELSE Some(SeqMax(lat_valid))]

PassFail(b) == IF b THEN "PASS" ELSE "FAIL"

\* a variant of GateChecks that lets a missing percentile pass
GateChecks_NonePasses(smoke_p, bench_p) ==
  [p95 |-> PassFail(bench_p.p95_s = None \/ bench_p.p95_s[1] <= P95Max * PctUnit),
   p99 |-> PassFail(bench_p.p99_s = None \/ bench_p.p99_s[1] <= P99Max * PctUnit),
   error_rate |-> PassFail(bench_p.error_rate <= ErrorRateMax),
   smoke_ok_rate |-> PassFail(smoke_p.ok_rate >= MinOkRateSmoke)]

\* gate lines 101-105: the four checks
GateChecks(smoke_p, bench_p) ==
  [p95 |-> PassFail(bench_p.p95_s # None /\ bench_p.p95_s[1] <= P95Max * PctUnit),
   p99 |-> PassFail(bench_p.p99_s # None /\ bench_p.p99_s[1] <= P99Max * PctUnit),
   error_rate |-> PassFail(bench_p.error_rate <= ErrorRateMax),
   smoke_ok_rate |-> PassFail(smoke_p.ok_rate >= MinOkRateSmoke)]

\* gate lines 106-116: passed = all checks are PASS
GatePayload(smoke_p, bench_p) ==
  LET checks == GateChecks(smoke_p, bench_p)
  IN [gate |-> checks,
      pass |-> \A k \in DOMAIN checks : checks[k] = "PASS",
      measured |-> bench_p,
      smoke |-> smoke_p]

\* main is started with its parsed arguments
InitBench ==
  /\ bpc = "smoke"
  /\ \E n \in 0..MaxN, w \in 0..MaxWarmup, d \in -1..MaxDiscard :
       args = [n |-> n, warmup |-> w, discard |-> d]
  /\ smoke_payload = None
  /\ hard_payload = None
  /\ warm_sent = 0
  /\ lat = <<>>
  /\ errors = 0
  /\ bench_payload = None
  /\ gate_payload = None
  /\ exit_code = None
  /\ ran = <<>>

\* smoke(): one GET per path; ok counts the 200s (an exception is status 0)
Smoke ==
  /\ bpc = "smoke"
  /\ \E statuses \in [1..NumSmokePaths -> {200, 404, 0}] :
       LET ok == Cardinality({i \in 1..NumSmokePaths : statuses[i] = 200})
       IN smoke_payload' = Some([ok |-> ok, total |-> NumSmokePaths,
                                 ok_rate |-> (ok * RateUnit) \div NumSmokePaths])
  /\ ran' = Append(ran, "smoke")
  /\ bpc' = "hardening"
  /\ UNCHANGED <<args, hard_payload, warm_sent, lat, errors, bench_payload,
                 gate_payload, exit_code>>
  /\ UNCHANGED <<svcVars, vecVars, spVars>>

\* hardening(): one POST per case; a non-200 or an exception is an error
Hardening ==
  /\ bpc = "hardening"
  /\ \E statuses \in [1..NumHardeningCases -> {200, 500, 0}] :
       LET errs == Cardinality({i \in 1..NumHardeningCases : statuses[i] # 200})
       IN hard_payload' = Some([errors |-> errs, N |-> NumHardeningCases,
                                error_rate |-> (errs * RateUnit) \div NumHardeningCases])
  /\ ran' = Append(ran, "hardening")
  /\ bpc' = "benchmark"
  /\ UNCHANGED <<args, smoke_payload, warm_sent, lat, errors, bench_payload,
                 gate_payload, exit_code>>
  /\ UNCHANGED <<svcVars, vecVars, spVars>>

\* benchmark lines 63-67: one warm-up POST; its response, latency or exception
\* is dropped
BenchWarmupRequest ==
  /\ bpc = "benchmark"
  /\ warm_sent < args.warmup
  /\ \E o \in PostOutcomes : warm_sent' = warm_sent + 1
  /\ UNCHANGED <<bpc, args, smoke_payload, hard_payload, lat, errors, bench_payload,
                 gate_payload, exit_code, ran>>
  /\ UNCHANGED <<svcVars, vecVars, spVars>>

\* benchmark lines 70-80: one measured POST
BenchMeasureRequest ==
  /\ bpc = "benchmark"
  /\ warm_sent >= args.warmup
  /\ Len(lat) < args.n
  /\ \E o \in PostOutcomes :
       IF o.exc
       THEN /\ errors' = errors + 1
            /\ lat' = Append(lat, None)
       ELSE /\ errors' = errors + (IF o.status # 200 THEN 1 ELSE 0)
            /\ lat' = Append(lat, Some(o.latency))
  /\ UNCHANGED <<bpc, args, smoke_payload, hard_payload, warm_sent, bench_payload,
                 gate_payload, exit_code, ran>>
  /\ UNCHANGED <<svcVars, vecVars, spVars>>

\* benchmark lines 82-98: the payload is computed and returned
BenchSummarise ==
  /\ bpc = "benchmark"
  /\ warm_sent >= args.warmup
  /\ Len(lat) >= args.n
  /\ bench_payload' = Some(BenchmarkPayload(lat, errors, args.n, args.discard))
  /\ ran' = Append(ran, "benchmark")
  /\ bpc' = "gate"
  /\ UNCHANGED <<args, smoke_payload, hard_payload, warm_sent, lat, errors,
                 gate_payload, exit_code>>
  /\ UNCHANGED <<svcVars, vecVars, spVars>>

\* main line 145
Gate ==
  /\ bpc = "gate"
  /\ gate_payload' = Some(GatePayload(smoke_payload[1], bench_payload[1]))
  /\ ran' = Append(ran, "gate")
  /\ bpc' = "exit"
  /\ UNCHANGED <<args, smoke_payload, hard_payload, warm_sent, lat, errors,
                 bench_payload, exit_code>>
  /\ UNCHANGED <<svcVars, vecVars, spVars>>

\* main lines 149-150: SystemExit(2) when the gate did not pass
ExitStatus(g) == IF ~g.pass THEN 2 ELSE 0

MainExit ==
  /\ bpc = "exit"
  /\ exit_code' = Some(ExitStatus(gate_payload[1]))
  /\ bpc' = "exited"
  /\ UNCHANGED <<args, smoke_payload, hard_payload, warm_sent, lat, errors,
                 bench_payload, gate_payload, ran>>
  /\ UNCHANGED <<svcVars, vecVars, spVars>>

\* ------------------------------------------------------------------------
\* Specifications

\* the service
Init == InitService /\ IdleVec /\ IdleSp /\ IdleBench
Next ==
  \E r \in Requests :
    \/ JudgeReceive(r)
    \/ EncodePrompt(r)
    \/ EncodeAnswer(r)
    \/ CallPredictProba(r)
    \/ CallDecisionFunction(r)
    \/ JudgeRespond(r)
    \/ JudgeFinish(r)
Spec == Init /\ [][Next]_vars

\* vectorisation over bounded inputs
InitVec == IdleSvc /\ InitVectorizeInputs /\ IdleSp /\ IdleBench
NextVec == VectorizeCall
SpecVectorize == InitVec /\ [][NextVec]_vars

\* spectrum_features over bounded inputs
InitSp == IdleSvc /\ IdleVec /\ InitSpectrumInputs /\ IdleBench
NextSp == SpectrumCall
SpecSpectrum == InitSp /\ [][NextSp]_vars

\* the harness
InitB == IdleSvc /\ IdleVec /\ IdleSp /\ InitBench
NextBench ==
  \/ Smoke
  \/ Hardening
  \/ BenchWarmupRequest
  \/ BenchMeasureRequest
  \/ BenchSummarise
  \/ Gate
  \/ MainExit
SpecBench == InitB /\ [][NextBench]_vars

\* ------------------------------------------------------------------------
\* Properties of the service

Count(r, op) == Cardinality({i \in 1..Len(calls[r]) : calls[r][i].op = op})
HasReturned(r) == outcome[r] # None /\ outcome[r][1].kind = "returned"
HasRaised(r) == outcome[r] # None /\ outcome[r][1].kind = "raised"
ProbaErrors == {"no attribute predict_proba", "predict_proba failed"}
DecisionErrors == {"no attribute decision_function", "decision_function failed"}

C2_ProbaFirstThenSigmoid ==
  /\ sigmoid(2 * Scale) = 881
  /\ \A r \in Requests :
       /\ \A i \in 1..Len(calls[r]) :
            calls[r][i].op = "decision_function"
            => /\ i > 1
               /\ calls[r][i - 1].op = "predict_proba"
               /\ calls[r][i - 1].how \in {"unavailable", "raised"}
       /\ HasReturned(r)
          => /\ Count(r, "predict_proba") = 1
             /\ IF core.meta_logit.predict_proba = "ok"
                THEN /\ Count(r, "decision_function") = 0
                     /\ outcome[r][1].value.p_good = ProbaRow(frame[r].x[1])[2]
                ELSE /\ Count(r, "decision_function") = 1
                     /\ outcome[r][1].value.p_good
                          = sigmoid(DecisionScore(frame[r].x[1]))

C2_Witness ==
  \E r \in Requests :
    /\ HasReturned(r)
    /\ Count(r, "decision_function") = 1
    /\ outcome[r][1].value.p_good # ProbaRow(frame[r].x[1])[2]

\* C4: a /judge response is 500 with the failure's description whenever
\* predict raised, and is 200 with scores only when predict returned, the
\* scores being those predict returned.
C4_FailureIs500 ==
  \A r \in Requests :
    resp[r] # None
    => /\ HasRaised(r)
          => /\ resp[r][1].status = 500
             /\ resp[r][1].detail = outcome[r][1].exc.msg
       /\ resp[r][1].status = 200
          => /\ HasReturned(r)
             /\ resp[r][1].scores.p_good = outcome[r][1].value.p_good
             /\ resp[r][1].scores.cosine = outcome[r][1].value.cosine
       /\ resp[r][1].status \in {200, 500}

C4_Witness ==
  \E r1 \in Requests, r2 \in Requests :
    /\ resp[r1] # None /\ resp[r1][1].status = 500
    /\ resp[r1][1].detail = "encode failed"
    /\ resp[r2] # None /\ resp[r2][1].status = 500
    /\ resp[r2][1].detail \in DecisionErrors

\* C5: within one predict call encode is invoked at most twice and each
\* classifier operation at most once; a raising encode call is the last
\* collaborator call of that predict call, and predict then fails with the
\* embedder's error without any classifier operation.
C5_NoRetry ==
  \A r \in Requests :
    /\ Count(r, "encode") <= 2
    /\ Count(r, "predict_proba") <= 1
    /\ Count(r, "decision_function") <= 1
    /\ \A i \in 1..Len(calls[r]) :
         (calls[r][i].op = "encode" /\ calls[r][i].how = "raised")
         => /\ i = Len(calls[r])
            /\ HasRaised(r)
            /\ outcome[r][1].exc.msg = "encode failed"
            /\ Count(r, "predict_proba") = 0
            /\ Count(r, "decision_function") = 0

C5_Witness ==
  \E r \in Requests :
    /\ Len(calls[r]) = 2
    /\ calls[r][2] = [op |-> "encode", how |-> "raised"]
    /\ resp[r] # None

\* predict run on its own, start to end, on a core c
PredictAlone(c, prompt, answer) ==
  LET e1 == Encode(c.embedder, prompt)
      e2 == Encode(c.embedder, answer)
  IN IF e1.raised THEN Raised(e1.exc)
     ELSE IF e2.raised THEN Raised(e2.exc)
     ELSE LET feats == extract_features(e1.value, e2.value, prompt, answer)
              x == Vectorize(feats, feature_names(c.meta_logit), c.expected_features)
              pr == CallOp(c.meta_logit, "predict_proba", x)
          IN IF pr.raised THEN DecisionFallback(c.meta_logit, x, feats, pr.exc)
             ELSE Returned(Result(ProbaPGood(pr.value), feats))

\* C6: under every interleaving, every step that ends a predict call ends it
\* with the outcome that call would have alone on the core as constructed at
\* startup, and every step leaves the core's embedder, meta_logit and
\* expected_features and app.py's `expected` unchanged.
C6_Independent ==
  [][/\ core' = core
     /\ expected' = expected
     /\ core'.expected_features = ExpectedAtStartup(core'.meta_logit)
     /\ \A r \in Requests :
          (outcome'[r] # None /\ outcome'[r] # outcome[r])
          => outcome'[r][1] =
               PredictAlone([embedder |-> core'.embedder,
                             meta_logit |-> core'.meta_logit,
                             expected_features |-> ExpectedAtStartup(core'.meta_logit)],
                            req'[r][1].prompt, req'[r][1].answer)]_vars

C6_Witness ==
  \E r1 \in Requests, r2 \in Requests :
    /\ HasReturned(r1)
    /\ pc[r2] = "predict_proba"
    /\ req[r1] # req[r2]
    /\ core.expected_features # Len(frame[r2].names[1])

\* C7 as stated: the classifier's declared names are read at startup only,
\* never during a request.
C7_NamesNotReadPerRequest ==
  \A r \in Requests : Count(r, "feature_names_in_") = 0

\* C7, amended: every predict call that reaches vectorisation has read the
\* classifier's feature_names_in_ once in that call and uses the declared
\* names when they are present and readable, else the canonical 15 names.
C7_NamesResolvedPerCall ==
  \A r \in Requests :
    /\ frame[r].names # None
       => /\ Count(r, "feature_names_in_") = 1
          /\ frame[r].names[1] =
               IF core.meta_logit.feature_names_in_ = <<"declared", DeclaredNames>>
               THEN DeclaredNames ELSE CanonicalNames
          /\ Len(CanonicalNames) = 15
    /\ frame[r].names = None => Count(r, "feature_names_in_") = 0

C7_Witness ==
  \E r1 \in Requests, r2 \in Requests :
    /\ r1 # r2
    /\ frame[r1].names = Some(DeclaredNames)
    /\ frame[r2].names = Some(DeclaredNames)
    /\ Count(r1, "feature_names_in_") = 1
    /\ Count(r2, "feature_names_in_") = 1

\* ------------------------------------------------------------------------
\* Properties of vectorisation and of spectrum_features

\* C3: the vector has exactly vn entries; entry i, for i up to the smaller of
\* the order's length and vn, is the feature value of the i-th name of the
\* order, 0 when the feature set lacks that name; the entries past the
\* order's length are 0; names of the order past position vn are dropped.
C3_VectorShape ==
  vpc = "returned"
  => /\ vout # None
     /\ Len(vout[1]) = vn
     /\ \A i \in 1..Min(Len(vorder), vn) :
          vout[1][i] = IF vorder[i] \in DOMAIN vfeats THEN vfeats[vorder[i]] ELSE 0
     /\ \A i \in (Len(vorder) + 1)..vn : vout[1][i] = 0

C3_Witness ==
  /\ vpc = "returned"
  /\ Len(vorder) = 2
  /\ vn = 4
  /\ vorder[1] \notin DOMAIN vfeats
  /\ vorder[2] \in DOMAIN vfeats
  /\ vout[1][2] # 0

\* the mean of bins lo..hi-1 (0-based) of the spectrum sy
BandMean(lo, hi) == SumSeq([i \in 1..(hi - lo) |-> sy[lo + i]]) \div (hi - lo)

\* C8: no band of spectrum_features is the mean of an empty slice: with
\* n >= 3 bins, a = max(1, n div 6) and b = max(2, n div 3) satisfy
\* 0 < a < b < n and the three outputs are the means over [0,a), [a,b) and
\* [b,n); with 1 or 2 bins freq_mid and freq_high are 0 and freq_low is bin 0;
\* with no bin all four outputs are 0; dominant_frequency is
\* argmax / max(1, n-1), within [0, 1].
C8_BandsNeverEmpty ==
  spc = "returned"
  => LET n == Len(sy)
         a == Max(1, n \div 6)
         b == Max(2, n \div 3)
         o == sout[1]
     IN /\ o.freq_low # NaN /\ o.freq_mid # NaN /\ o.freq_high # NaN
        /\ n >= 3 => /\ 0 < a /\ a < b /\ b < n
                     /\ o.freq_low = BandMean(0, a)
                     /\ o.freq_mid = BandMean(a, b)
                     /\ o.freq_high = BandMean(b, n)
        /\ n \in {1, 2} => /\ o.freq_mid = 0 /\ o.freq_high = 0
                           /\ o.freq_low = sy[1]
        /\ n = 0 => o = [freq_low |-> 0, freq_mid |-> 0, freq_high |-> 0,
                         dominant_frequency |-> 0]
        /\ 0 <= o.dominant_frequency /\ o.dominant_frequency <= Scale
        /\ n >= 1 =>
             \E k \in 0..(n - 1) :
               /\ \A j \in 1..n : sy[j] <= sy[k + 1]
               /\ \A j \in 1..k : sy[j] < sy[k + 1]
               /\ o.dominant_frequency = (k * Scale) \div Max(1, n - 1)

C8_Witness ==
  /\ spc = "returned"
  /\ Len(sy) = MaxBins
  /\ sout[1].freq_low > 0 /\ sout[1].freq_low < 3 * Scale
  /\ sout[1].freq_mid = 0
  /\ sout[1].freq_high > 0
  /\ sout[1].dominant_frequency = Scale \div (MaxBins - 1)

\* ------------------------------------------------------------------------
\* Properties of the harness

Completed == Len(Valid(lat))

\* the completed measurements that remain once the first d are removed
\* (none is removed for d <= 0)
AfterRemoving(d) ==
  [i \in 1..Max(0, Completed - Max(0, d)) |-> Valid(lat)[i + Max(0, d)]]

\* the payload's statistics are those of the sample smp
StatsOver(smp) ==
  LET pl == bench_payload[1]
  IN /\ pl.N = Len(smp)
     /\ pl.p50_s = percentile(smp, 50)
     /\ pl.p95_s = percentile(smp, 95)
     /\ pl.p99_s = percentile(smp, 99)
     /\ smp # <<>> =>
          /\ pl.min_s # None /\ \A i \in 1..Len(smp) : pl.min_s[1] <= smp[i]
          /\ pl.max_s # None /\ \A i \in 1..Len(smp) : pl.max_s[1] >= smp[i]
          /\ pl.mean_s = Some((SumSeq(smp) * PctUnit) \div Len(smp))
          /\ pl.min_s[1] * PctUnit <= pl.p50_s[1]
          /\ pl.p50_s[1] <= pl.p95_s[1]
          /\ pl.p95_s[1] <= pl.p99_s[1]
          /\ pl.p99_s[1] <= pl.max_s[1] * PctUnit
     /\ smp = <<>> => pl.min_s = None /\ pl.max_s = None /\ pl.mean_s = None

\* C9 as stated: for every n, warmup and discard the statistics are those of
\* the completed measurements without their first `discard`, and N is their
\* number.
C9_AlwaysDiscards ==
  bench_payload # None => StatsOver(AfterRemoving(args.discard))

\* C9, amended: no warm-up request contributes a latency (the measured list
\* has n entries whatever the warm-up count); when discard > 0 and more than
\* `discard` measurements completed, the statistics are those of the completed
\* measurements without their first `discard` and N is their number minus
\* discard; otherwise nothing is removed and N is the number completed.
C9_DiscardsWhenEnough ==
  bench_payload # None
  => /\ Len(lat) = args.n
     /\ warm_sent = args.warmup
     /\ IF args.discard > 0 /\ Completed > args.discard
        THEN /\ StatsOver(AfterRemoving(args.discard))
             /\ bench_payload[1].N = Completed - args.discard
        ELSE /\ StatsOver(AfterRemoving(0))
             /\ bench_payload[1].N = Completed

C9_Witness ==
  /\ bench_payload # None
  /\ args.warmup > 0
  /\ args.discard = 1
  /\ Completed = 2
  /\ Len(lat) = 3
  /\ Valid(lat)[1] = 1000
  /\ bench_payload[1].max_s = Some(100)

\* C10: the gate passes exactly when the four threshold checks pass; a run
\* without a latency sample fails; main exits with 2 exactly when the gate did
\* not pass (else 0), after smoke, hardening, benchmark and gate ran once each
\* in that order.
C10_GateAndExit ==
  /\ gate_payload # None
     => LET b == bench_payload[1]
            ok95 == b.p95_s # None /\ b.p95_s[1] <= 600 * PctUnit
            ok99 == b.p99_s # None /\ b.p99_s[1] <= 900 * PctUnit
            okErr == errors * 1000 <= 5 * Max(1, args.n)
            okSmoke == smoke_payload[1].ok = smoke_payload[1].total
        IN /\ gate_payload[1].pass <=> (ok95 /\ ok99 /\ okErr /\ okSmoke)
           /\ (b.p95_s = None \/ b.p99_s = None) => ~gate_payload[1].pass
           /\ Completed = 0 => ~gate_payload[1].pass
           /\ ran = <<"smoke", "hardening", "benchmark", "gate">>
  /\ exit_code # None
     => /\ gate_payload # None
        /\ exit_code[1] = 2 <=> ~gate_payload[1].pass
        /\ exit_code[1] \in {0, 2}
  /\ \A i \in 1..Len(ran) : ran[i] = <<"smoke", "hardening", "benchmark", "gate">>[i]

C10_Witness ==
  /\ bpc = "exited"
  /\ exit_code = Some(2)
  /\ args.n > 0
  /\ Completed = 0
  /\ smoke_payload[1].ok = NumSmokePaths

====
